---- MODULE Spec2Model ----
(***************************************************************************)
(* Model of game_agent.py: the CustomPlayer search agent for the game of   *)
(* Isolation (fixed-depth minimax, alpha-beta pruning and the iterative    *)
(* deepening driver get_move), together with the Board collaborator it     *)
(* searches and the time oracle it polls.                                  *)
(***************************************************************************)
EXTENDS Integers, Sequences, FiniteSets, TLC

(* ---------------------------- bounds ----------------------------------- *)

\* Plies played from the empty board before the player is asked for a move.
MaxPlies == 3
\* Largest number of queries a running clock answers with "enough time".
MaxBudget == 10
\* Largest search_depth a player is constructed with.
MaxSearchDepth == 2
\* Largest depth handed to a direct minimax / alphabeta call.
MaxCallDepth == 3
\* The iterative-deepening loop is followed up to this depth.
MaxDepth == 4

(* ------------------------- program constants --------------------------- *)

\* float("inf"); every finite score lies strictly between -Inf and Inf.
Inf == 1000
\* CustomPlayer.__init__ default timeout=10.
TIMER_THRESHOLD == 10

\* Python's None.
None == <<>>
\* selected_move = (-1, -1): the no-move sentinel of get_move.
NoMove == <<-1, -1>>
\* Board.NOT_MOVED: the player has not been placed yet.
NOT_MOVED == <<-9, -9>>

Max(a, b) == IF a >= b THEN a ELSE b
Min(a, b) == IF a <= b THEN a ELSE b

(* ------------------------------ Board ---------------------------------- *)
(* The game state the agent searches (isolation.Board), which the agent    *)
(* only reads: legal moves, forecast, active and inactive player, winner   *)
(* and loser, move_count, height and width.  A board is [active, last,     *)
(* used]: the player to move (1 or 2), each player's last move (or         *)
(* NOT_MOVED) and the set of occupied cells.  A player not yet placed may  *)
(* take any blank cell; afterwards a player moves in L shapes to a blank   *)
(* cell.  The boards carry no `counter` attribute (line 305 is skipped).   *)

\* game.height and game.width: the boards searched have 3 rows and 3 columns.
Height == 3
Width == 3

Cells == (0 .. Height - 1) \X (0 .. Width - 1)

EmptyBoard == [active |-> 1, last |-> <<NOT_MOVED, NOT_MOVED>>, used |-> {}]

move_count(game) == Cardinality(game.used)

active_player(game) == game.active
inactive_player(game) == 3 - game.active
get_opponent(game, player) == 3 - player

\* The L-shaped (knight) displacements, in the order the board tries them.
Directions ==
  << <<-2, -1>>, <<-2, 1>>, <<-1, -2>>, <<-1, 2>>,
     <<1, -2>>, <<1, 2>>, <<2, -1>>, <<2, 1>> >>

move_is_legal(game, move) == move \in Cells /\ move \notin game.used

\* Blank cells, column by column.
get_blank_spaces(game) ==
  SelectSeq([k \in 1 .. Height * Width |->
               <<(k - 1) % Height, (k - 1) \div Height>>],
            LAMBDA c : c \notin game.used)

get_legal_moves(game, player) ==
  LET loc == game.last[player] IN
  IF loc = NOT_MOVED THEN get_blank_spaces(game)
  ELSE SelectSeq([k \in 1 .. 8 |->
                    <<loc[1] + Directions[k][1], loc[2] + Directions[k][2]>>],
                 LAMBDA m : move_is_legal(game, m))

forecast_move(game, move) ==
  [active |-> 3 - game.active,
   last   |-> [game.last EXCEPT ![game.active] = move],
   used   |-> game.used \cup {move}]

is_loser(game, player) ==
  player = game.active /\ Len(get_legal_moves(game, game.active)) = 0

is_winner(game, player) ==
  player = 3 - game.active /\ Len(get_legal_moves(game, game.active)) = 0

(* ------------------------- evaluation function ------------------------- *)

custom_score(game, player) ==
  IF is_loser(game, player) THEN -Inf
  ELSE IF is_winner(game, player) THEN Inf
  ELSE Len(get_legal_moves(game, player))
         - 2 * Len(get_legal_moves(game, get_opponent(game, player)))

\* self.score, the score_fn the player was constructed with.
score(game, player) == custom_score(game, player)

(* ------------------------------ time oracle ---------------------------- *)
(* The callable time_left is a clock: it starts at `start` milliseconds    *)
(* and loses `tick` milliseconds with every query (tick = 0: a clock that  *)
(* never runs down).  q counts the queries already answered.               *)

time_left_value(tl, q) == tl.start - tl.tick * q

\* self.time_left() < self.TIMER_THRESHOLD
TimeIsUp(tl, q) == time_left_value(tl, q) < TIMER_THRESHOLD

(* ------------------------------- minimax ------------------------------- *)
(* max_value / min_value return [to, v, q]: whether Timeout was raised,    *)
(* the utility, and the number of oracle queries answered so far.          *)
(* XLoop is the for loop of X at its i-th move; XNext is the rest of the   *)
(* loop body once the recursive call has returned r.                       *)

RECURSIVE max_value(_, _, _, _), min_value(_, _, _, _)
RECURSIVE MaxValueLoop(_, _, _, _, _, _, _), MinValueLoop(_, _, _, _, _, _, _)
RECURSIVE MaxValueNext(_, _, _, _, _, _, _), MinValueNext(_, _, _, _, _, _, _)

MaxValueNext(game, moves, i, depth, tl, utility, r) ==
  IF r.to THEN r
  ELSE MaxValueLoop(game, moves, i + 1, depth, tl, Max(utility, r.v), r.q)

MaxValueLoop(game, moves, i, depth, tl, utility, q) ==
  IF i > Len(moves) THEN [to |-> FALSE, v |-> utility, q |-> q]
  ELSE MaxValueNext(game, moves, i, depth, tl, utility,
                    min_value(forecast_move(game, moves[i]), depth - 1, tl, q))

MinValueNext(game, moves, i, depth, tl, utility, r) ==
  IF r.to THEN r
  ELSE MinValueLoop(game, moves, i + 1, depth, tl, Min(utility, r.v), r.q)

MinValueLoop(game, moves, i, depth, tl, utility, q) ==
  IF i > Len(moves) THEN [to |-> FALSE, v |-> utility, q |-> q]
  ELSE MinValueNext(game, moves, i, depth, tl, utility,
                    max_value(forecast_move(game, moves[i]), depth - 1, tl, q))

max_value(game, depth, tl, q) ==
  IF TimeIsUp(tl, q) THEN [to |-> TRUE, v |-> 0, q |-> q + 1]
  ELSE IF depth <= 0
       THEN [to |-> FALSE, v |-> score(game, active_player(game)), q |-> q + 1]
       ELSE MaxValueLoop(game, get_legal_moves(game, game.active), 1, depth,
                         tl, -Inf, q + 1)

min_value(game, depth, tl, q) ==
  IF TimeIsUp(tl, q) THEN [to |-> TRUE, v |-> 0, q |-> q + 1]
  ELSE IF depth <= 0
       THEN [to |-> FALSE, v |-> score(game, inactive_player(game)), q |-> q + 1]
       ELSE MinValueLoop(game, get_legal_moves(game, game.active), 1, depth,
                         tl, Inf, q + 1)

\* The root loop of minimax: utilities collects the (utility, move) pairs of
\* the root moves scored before a Timeout (if any) ended the loop.
RECURSIVE MinimaxLoop(_, _, _, _, _, _, _), MinimaxNext(_, _, _, _, _, _, _)

MinimaxNext(game, moves, i, depth, tl, utilities, r) ==
  IF r.to THEN [cut |-> TRUE, utilities |-> utilities, q |-> r.q]
  ELSE MinimaxLoop(game, moves, i + 1, depth, tl,
                   Append(utilities, <<r.v, moves[i]>>), r.q)

MinimaxLoop(game, moves, i, depth, tl, utilities, q) ==
  IF i > Len(moves) THEN [cut |-> FALSE, utilities |-> utilities, q |-> q]
  ELSE MinimaxNext(game, moves, i, depth, tl, utilities,
                   min_value(forecast_move(game, moves[i]), depth - 1, tl, q))

\* A faulty variant of MaxByKey: a later pair of equal utility replaces the
\* earlier one.
RECURSIVE MaxByKeyLast(_, _, _)
MaxByKeyLast(utilities, i, best) ==
  IF i > Len(utilities) THEN best
  ELSE MaxByKeyLast(utilities, i + 1,
                    IF utilities[i][1] >= best[1] THEN utilities[i] ELSE best)

\* max(utilities, key = lambda x: x[0]) keeps the first maximal pair.
RECURSIVE MaxByKey(_, _, _)
MaxByKey(utilities, i, best) ==
  IF i > Len(utilities) THEN best
  ELSE MaxByKey(utilities, i + 1,
                IF utilities[i][1] > best[1] THEN utilities[i] ELSE best)

\* The result of a search: the returned pair (utility, move), whether
\* Timeout left the call (raised), whether a Timeout was swallowed inside it
\* (cut), the queries answered so far (q), the nodes visited (n) and the
\* (utility, move) pairs the root loop of minimax collected.
SearchResult(pair, raised, cut, q, n, utilities) ==
  [utility |-> pair[1], move |-> pair[2], raised |-> raised, cut |-> cut,
   q |-> q, n |-> n, utilities |-> utilities]

\* What minimax returns after its root loop l, entered at query q.
MinimaxReturn(l, q) ==
  SearchResult(IF Len(l.utilities) = 0 THEN <<0, None>>
               ELSE MaxByKey(l.utilities, 2, l.utilities[1]),
               FALSE, l.cut, l.q, l.q - q, l.utilities)

\* minimax(game, depth) with the clock at query q.
minimax(game, depth, tl, q) ==
  MinimaxReturn(MinimaxLoop(game, get_legal_moves(game, game.active), 1,
                            depth, tl, <<>>, q), q)

(* ------------------------------ alphabeta ------------------------------ *)
(* The nested helpers return [v, n]: the utility and the number of helper  *)
(* calls made for the subtree (this call included).  They never consult    *)
(* the time oracle.  alpha and beta are parameters, local to each call.    *)

RECURSIVE alphabeta_max_value(_, _, _, _), alphabeta_min_value(_, _, _, _)
RECURSIVE AlphabetaMaxLoop(_, _, _, _, _, _, _, _)
RECURSIVE AlphabetaMinLoop(_, _, _, _, _, _, _, _)
RECURSIVE AlphabetaMaxNext(_, _, _, _, _, _, _, _)
RECURSIVE AlphabetaMinNext(_, _, _, _, _, _, _, _)

\* utility is already max(utility, child's value); n counts the child's nodes.
AlphabetaMaxNext(game, moves, i, depth, alpha, beta, utility, n) ==
  IF utility >= beta THEN [v |-> utility, n |-> n]
  ELSE AlphabetaMaxLoop(game, moves, i + 1, depth, Max(alpha, utility), beta,
                        utility, n)

AlphabetaMaxChild(game, moves, i, depth, alpha, beta, utility, n, r) ==
  AlphabetaMaxNext(game, moves, i, depth, alpha, beta, Max(utility, r.v),
                   n + r.n)

AlphabetaMaxLoop(game, moves, i, depth, alpha, beta, utility, n) ==
  IF i > Len(moves) THEN [v |-> utility, n |-> n]
  ELSE AlphabetaMaxChild(game, moves, i, depth, alpha, beta, utility, n,
         alphabeta_min_value(forecast_move(game, moves[i]), depth - 1,
                             alpha, beta))

\* utility is already min(utility, child's value); n counts the child's nodes.
AlphabetaMinNext(game, moves, i, depth, alpha, beta, utility, n) ==
  IF utility <= alpha THEN [v |-> utility, n |-> n]
  ELSE AlphabetaMinLoop(game, moves, i + 1, depth, alpha, Min(beta, utility),
                        utility, n)

AlphabetaMinChild(game, moves, i, depth, alpha, beta, utility, n, r) ==
  AlphabetaMinNext(game, moves, i, depth, alpha, beta, Min(utility, r.v),
                   n + r.n)

AlphabetaMinLoop(game, moves, i, depth, alpha, beta, utility, n) ==
  IF i > Len(moves) THEN [v |-> utility, n |-> n]
  ELSE AlphabetaMinChild(game, moves, i, depth, alpha, beta, utility, n,
         alphabeta_max_value(forecast_move(game, moves[i]), depth - 1,
                             alpha, beta))

alphabeta_max_value(game, depth, alpha, beta) ==
  IF depth = 0 THEN [v |-> score(game, active_player(game)), n |-> 1]
  ELSE AlphabetaMaxLoop(game, get_legal_moves(game, game.active), 1, depth,
                        alpha, beta, -Inf, 1)

alphabeta_min_value(game, depth, alpha, beta) ==
  IF depth = 0 THEN [v |-> score(game, inactive_player(game)), n |-> 1]
  ELSE AlphabetaMinLoop(game, get_legal_moves(game, game.active), 1, depth,
                        alpha, beta, Inf, 1)

\* game_utility of a root move: its forecast new_game scored for new_game's
\* active player.
game_utility(new_game) == score(new_game, active_player(new_game))

\* The loop after the search: the first root move whose game_utility equals
\* the root utility; None if there is none.
RECURSIVE AlphabetaSelect(_, _, _, _)
AlphabetaSelect(game, moves, i, utility) ==
  IF i > Len(moves) THEN None
  ELSE IF utility = game_utility(forecast_move(game, moves[i])) THEN moves[i]
       ELSE AlphabetaSelect(game, moves, i + 1, utility)

\* What alphabeta returns once alphabeta_max_value has returned r.
AlphabetaReturn(game, r, q) ==
  SearchResult(<<r.v, AlphabetaSelect(game, get_legal_moves(game, game.active),
                                      1, r.v)>>,
               FALSE, FALSE, q, r.n, <<>>)

\* alphabeta(game, depth) with the clock at query q (n: the helper calls
\* made, the root's included).
alphabeta(game, depth, tl, q) ==
  IF TimeIsUp(tl, q)
  THEN SearchResult(<<0, None>>, TRUE, FALSE, q + 1, 0, <<>>)
  ELSE AlphabetaReturn(game, alphabeta_max_value(game, depth, -Inf, Inf),
                       q + 1)

(* ---------------------------- get_best_move ---------------------------- *)

\* Dispatch on self.method; any other name falls off the end: the call
\* returns None without searching.
get_best_move(method, game, depth, tl, q) ==
  IF method = "minimax" THEN minimax(game, depth, tl, q)
  ELSE IF method = "alphabeta" THEN alphabeta(game, depth, tl, q)
  ELSE SearchResult(<<0, None>>, FALSE, FALSE, q, 0, <<>>)

(* ------------------------------- get_move ------------------------------ *)

get_open_game_move(game) == <<Height \div 2, Width \div 2>>

\* A faulty variant of get_move_entry: the test of legal_moves is missing.
get_move_entry_unguarded(game, legal_moves) ==
  IF move_count(game) = 0
  THEN [pc |-> "returned", selected_move |-> get_open_game_move(game)]
  ELSE [pc |-> "try", selected_move |-> NoMove]

\* The part of get_move before the try block: where control goes next and
\* the selected_move it holds.
get_move_entry(game, legal_moves) ==
  IF Len(legal_moves) = 0
  THEN [pc |-> "returned", selected_move |-> NoMove]
  ELSE IF move_count(game) = 0
       THEN [pc |-> "returned", selected_move |-> get_open_game_move(game)]
       ELSE [pc |-> "try", selected_move |-> NoMove]

\* One round of the while loop once get_best_move has returned r: the
\* update of selected_move and the check of the clock.  timeout: a Timeout
\* left the round (from the search or from the check).
IterativeOutcome(r, selected, tl) ==
  IF r.raised
  THEN [timeout |-> TRUE, selected_move |-> selected, q |-> r.q, r |-> r]
  ELSE [timeout |-> TimeIsUp(tl, r.q),
        selected_move |-> IF r.move # None THEN r.move ELSE selected,
        q |-> r.q + 1, r |-> r]

\* One round of the while loop at depth d, with the clock at query q.
iterative_round(method, game, d, selected, tl, q) ==
  IterativeOutcome(get_best_move(method, game, d, tl, q), selected, tl)

\* The else branch once get_best_move has returned r.
FixedOutcome(r, selected) ==
  IF r.raised
  THEN [timeout |-> TRUE, selected_move |-> selected, q |-> r.q, r |-> r]
  ELSE [timeout |-> FALSE, selected_move |-> r.move, q |-> r.q, r |-> r]

\* The else branch: one search at self.search_depth.
fixed_round(method, game, d, selected, tl, q) ==
  FixedOutcome(get_best_move(method, game, d, tl, q), selected)

\* A faulty variant of OnTimeout: no except clause, the Timeout leaves get_move.
TimeoutEscapes == "raised"

\* "except Timeout: pass": a Timeout leaving the try block ends get_move with
\* a normal return of selected_move.
OnTimeout == "returned"

(* ------------------------------- state --------------------------------- *)

VARIABLES
  game,           \* the board the next call is made on
  player,         \* the CustomPlayer's configuration (search_depth, iterative, method)
  time_left,      \* self.time_left: the clock handed to the player
  nq,             \* the queries the clock has answered in the current call
  pc,             \* "new", "idle", "try" (inside get_move's try block), "returned", "raised"
  depth,          \* get_move's local depth
  selected_move,  \* get_move's local selected_move; its return value once pc = "returned"
  calls,          \* the depths get_best_move was called with in the current get_move
  hist,           \* what the searches of the current get_move did (see NoHist)
  mm,             \* the latest direct minimax call on game (see NoResult)
  ab              \* the latest direct alphabeta call on game

vars == <<game, player, time_left, nq, pc, depth, selected_move, calls, hist, mm, ab>>

Methods == {"minimax", "alphabeta", "negamax"}

\* A clock that never runs down, and the running clocks: the first b queries
\* of a running clock report enough time, every later one reports too little.
FrozenClock == [start |-> TIMER_THRESHOLD, tick |-> 0]
RunningClock(b) == [start |-> TIMER_THRESHOLD + b - 1, tick |-> 1]
Clocks == {FrozenClock} \cup {RunningClock(b) : b \in 0 .. MaxBudget}
Budget(tl) == tl.start - TIMER_THRESHOLD + 1

NoClock == [start |-> 0, tick |-> 0]

\* hist: full: some search of this get_move ran to its end with no Timeout;
\* fullMove: the move of the latest such search; partial: a later search was
\* cut short by a Timeout after it had scored some root moves.
\* caught: a Timeout reached the except clause of get_move.
NoHist == [full |-> FALSE, fullMove |-> None, partial |-> FALSE,
           caught |-> FALSE]

\* mm, ab: called: the call was made; depth, tl: its inputs; r: its result.
NoResult == [called |-> FALSE, depth |-> 0, tl |-> NoClock,
             r |-> SearchResult(<<0, None>>, FALSE, FALSE, 0, 0, <<>>)]

DefaultPlayer == [search_depth |-> 3, iterative |-> TRUE, method |-> "minimax"]

Init ==
  /\ game = EmptyBoard
  /\ player = DefaultPlayer
  /\ time_left = NoClock
  /\ nq = 0
  /\ pc = "new"
  /\ depth = 0
  /\ selected_move = NoMove
  /\ calls = <<>>
  /\ hist = NoHist
  /\ mm = NoResult
  /\ ab = NoResult

\* The state after CustomPlayer() with the default arguments.
InitSearch ==
  /\ game = EmptyBoard
  /\ player = DefaultPlayer
  /\ time_left = NoClock
  /\ nq = 0
  /\ pc = "idle"
  /\ depth = 0
  /\ selected_move = NoMove
  /\ calls = <<>>
  /\ hist = NoHist
  /\ mm = NoResult
  /\ ab = NoResult

(* ------------------------------ actions -------------------------------- *)

\* CustomPlayer.__init__: stores its arguments, whatever they are.
Construct(search_depth, iterative, method) ==
  /\ pc = "new"
  /\ player' = [search_depth |-> search_depth, iterative |-> iterative,
                method |-> method]
  /\ pc' = "idle"
  /\ time_left' = NoClock
  /\ UNCHANGED <<game, nq, depth, selected_move, calls, hist, mm, ab>>

\* The game goes on: Board.apply_move of a legal move of the player to move.
ApplyMove(move) ==
  /\ pc \in {"idle", "returned"}
  /\ move_count(game) < MaxPlies
  /\ \E i \in 1 .. Len(get_legal_moves(game, game.active)) :
        get_legal_moves(game, game.active)[i] = move
  /\ game' = forecast_move(game, move)
  /\ pc' = "idle"
  /\ time_left' = NoClock
  /\ nq' = 0
  /\ depth' = 0
  /\ selected_move' = NoMove
  /\ calls' = <<>>
  /\ hist' = NoHist
  /\ mm' = NoResult
  /\ ab' = NoResult
  /\ UNCHANGED player

\* Control and selected_move after the entry e of get_move.
Enter(e) ==
  /\ pc' = e.pc
  /\ selected_move' = e.selected_move

\* The active player's turn (Board.play): get_move(game,
\* game.get_legal_moves(), tl), once per position, up to the try block.
GetMove(tl) ==
  /\ pc = "idle"
  /\ Enter(get_move_entry(game, get_legal_moves(game, game.active)))
  /\ time_left' = tl
  /\ nq' = 0
  /\ depth' = player.search_depth + 1
  /\ calls' = <<>>
  /\ hist' = NoHist
  /\ UNCHANGED <<game, player, mm, ab>>

HistAfter(h, round) ==
  LET r == round.r IN
  IF ~r.raised /\ ~r.cut
  THEN [full |-> TRUE, fullMove |-> r.move, partial |-> FALSE,
        caught |-> round.timeout]
  ELSE [h EXCEPT !.partial = h.partial \/ (r.cut /\ Len(r.utilities) > 0),
                 !.caught = round.timeout]

\* The end of a round of the try block: the locals it leaves and where
\* control goes (stay: the loop goes on).
EndRound(round, stay) ==
  /\ selected_move' = round.selected_move
  /\ nq' = round.q
  /\ hist' = HistAfter(hist, round)
  /\ pc' = IF round.timeout THEN OnTimeout ELSE stay

\* One round of the while loop of get_move.
IterativeRound ==
  /\ pc = "try"
  /\ player.iterative = TRUE
  /\ depth < MaxDepth
  /\ depth' = depth + 1
  /\ calls' = Append(calls, depth + 1)
  /\ EndRound(iterative_round(player.method, game, depth + 1, selected_move,
                              time_left, nq), "try")
  /\ UNCHANGED <<game, player, time_left, mm, ab>>

\* The single search of get_move without iterative deepening.
FixedRound ==
  /\ pc = "try"
  /\ player.iterative # TRUE
  /\ calls' = Append(calls, player.search_depth)
  /\ EndRound(fixed_round(player.method, game, player.search_depth,
                          selected_move, time_left, nq), "returned")
  /\ UNCHANGED <<game, player, time_left, depth, mm, ab>>

\* The record of a direct call and the clock it leaves behind.
Called(d, tl, r) == [called |-> TRUE, depth |-> d, tl |-> tl, r |-> r]

\* player.time_left = tl; player.minimax(game, d).  Each position gets one
\* call of each algorithm, the second with the inputs of the first.
CallMinimax(d, tl) ==
  /\ pc = "idle"
  /\ ~mm.called
  /\ ab.called => (ab.depth = d /\ ab.tl = tl)
  /\ time_left' = tl
  /\ mm' = Called(d, tl, minimax(game, d, tl, 0))
  /\ nq' = mm'.r.q
  /\ UNCHANGED <<ab, game, player, pc, depth, selected_move, calls, hist>>

\* player.time_left = tl; player.alphabeta(game, d)
CallAlphabeta(d, tl) ==
  /\ pc = "idle"
  /\ ~ab.called
  /\ mm.called => (mm.depth = d /\ mm.tl = tl)
  /\ time_left' = tl
  /\ ab' = Called(d, tl, alphabeta(game, d, tl, 0))
  /\ nq' = ab'.r.q
  /\ UNCHANGED <<mm, game, player, pc, depth, selected_move, calls, hist>>

Next ==
  \/ \E sd \in 0 .. MaxSearchDepth, it \in BOOLEAN, m \in Methods :
        Construct(sd, it, m)
  \/ \E move \in Cells : ApplyMove(move)
  \/ \E tl \in Clocks : GetMove(tl)
  \/ IterativeRound
  \/ FixedRound

Spec == Init /\ [][Next]_vars

NextSearch ==
  \/ \E move \in Cells : ApplyMove(move)
  \/ \E d \in 0 .. MaxCallDepth, tl \in Clocks : CallMinimax(d, tl)
  \/ \E d \in 0 .. MaxCallDepth, tl \in Clocks : CallAlphabeta(d, tl)

SpecSearch == InitSearch /\ [][NextSearch]_vars

(* ------------------------------ properties ----------------------------- *)

LegalMoves == get_legal_moves(game, game.active)
LegalMoveSet == {LegalMoves[i] : i \in 1 .. Len(LegalMoves)}
WellConfigured ==
  player.method \in {"minimax", "alphabeta"} /\ player.search_depth >= 1

\* C1: no Timeout raised during a get_move (in max_value, min_value, the
\* alphabeta root check or the iterative-deepening loop) leaves get_move:
\* the call never ends by raising, it returns.
C1_TimeoutNeverEscapes ==
  /\ pc # "raised"
  /\ hist.caught => pc = "returned"

\* A get_move has returned after a Timeout reached its except clause.
C1_Witness == pc = "returned" /\ hist.caught /\ Len(calls) > 0

\* C2: a get_move called with an empty legal-move list returns (-1, -1)
\* at once: it never enters the try block, calls no search and never asks
\* the clock, whatever the method, the depth, the iterative flag, the clock.
C2_EmptyReturnsSentinel ==
  (pc # "idle" /\ pc # "new" /\ Len(LegalMoves) = 0) =>
     /\ pc = "returned"
     /\ selected_move = NoMove
     /\ calls = <<>>
     /\ nq = 0

\* get_move has returned on a position where the player to move is blocked.
C2_Witness ==
  pc = "returned" /\ Len(LegalMoves) = 0 /\ move_count(game) > 0

\* C3 (as claimed, in the case of a clock that never runs down): get_move
\* on a position with a legal move returns one of its legal moves.
C3_ReturnsLegalMove ==
  (pc = "returned" /\ Len(LegalMoves) > 0 /\ WellConfigured
     /\ time_left = FrozenClock)
  => selected_move \in LegalMoveSet

\* C4 (as claimed, for the depths >= 1 a player is configured with): with
\* no timeout, minimax and alphabeta on the same position and depth return
\* the same utility, also on a position without legal moves.
C4_SameUtility ==
  (mm.called /\ ab.called /\ mm.depth = ab.depth /\ mm.depth >= 1
     /\ ~mm.r.cut /\ ~ab.r.raised)
  => mm.r.utility = ab.r.utility

\* C5 (as claimed): with iterative deepening the searches of a get_move
\* are made at depths 1, 2, 3, ... in that order.
C5_DepthsFromOne ==
  (player.iterative = TRUE /\ WellConfigured) =>
     \A i \in 1 .. Len(calls) : calls[i] = i

\* C6 (as claimed): with iterative deepening, when a depth was searched to
\* its end and the next one was cut short by Timeout after scoring some root
\* moves, get_move returns the move of the depth searched to its end.
C6_PartialDepthIgnored ==
  (pc = "returned" /\ player.iterative = TRUE /\ WellConfigured
     /\ hist.full /\ hist.fullMove # None /\ hist.partial)
  => selected_move = hist.fullMove

\* The min-node value of the root move at index i, with no timeout.
RootValue(g, d, i) ==
  min_value(forecast_move(g, get_legal_moves(g, g.active)[i]), d - 1,
            FrozenClock, 0).v

\* C7: with no timeout, at depth >= 1 on a position with a legal move,
\* minimax returns the first move (in legal-move order) whose min_value at
\* depth - 1 is maximal among the root moves, and that maximum as utility.
C7_FirstMaximalMove ==
  (mm.called /\ ~mm.r.cut /\ mm.depth >= 1 /\ Len(LegalMoves) > 0)
  => \E i \in 1 .. Len(LegalMoves) :
        /\ mm.r.move = LegalMoves[i]
        /\ mm.r.utility = RootValue(game, mm.depth, i)
        /\ \A j \in 1 .. Len(LegalMoves) :
              /\ RootValue(game, mm.depth, j) <= mm.r.utility
              /\ j < i => RootValue(game, mm.depth, j) < mm.r.utility

\* minimax, searching two plies or more, returned a move that a later root
\* move ties with, a third root move being worse.
C7_Witness ==
  /\ mm.called /\ ~mm.r.cut /\ mm.depth >= 2
  /\ \E i, j \in 1 .. Len(LegalMoves) :
        /\ i < j
        /\ mm.r.move = LegalMoves[i]
        /\ RootValue(game, mm.depth, j) = mm.r.utility
        /\ \E k \in 1 .. Len(LegalMoves) :
              RootValue(game, mm.depth, k) < mm.r.utility

\* C8 (as claimed): a player with an unknown method name or a non-positive
\* search depth is rejected when constructed, so none ever runs get_move.
C8_MisconfiguredRejected ==
  ~WellConfigured => pc \notin {"try", "returned", "raised"}

\* C9 (as claimed): with no timeout, at depth >= 1 on a position with a
\* legal move, alphabeta returns a legal root move whose min-node value at
\* depth - 1 is the returned utility.
C9_MoveProducesUtility ==
  (ab.called /\ ~ab.r.raised /\ ab.depth >= 1 /\ Len(LegalMoves) > 0)
  => \E i \in 1 .. Len(LegalMoves) :
        /\ ab.r.move = LegalMoves[i]
        /\ RootValue(game, ab.depth, i) = ab.r.utility

\* C10 (as claimed): alphabeta asks the clock at the root and at every
\* recursive helper call, so a search that ends without Timeout has visited
\* no more nodes than the clock answered "enough time".
C10_EveryNodeChecksClock ==
  (ab.called /\ ab.tl # FrozenClock /\ ~ab.r.raised)
  => ab.r.n <= Budget(ab.tl)

====
